---- MODULE Spec2Model ----
(***************************************************************************)
(* Model of library/mysql_database_migration.py: the `database` class      *)
(* (init, load_metadata_migration_files, validate_new_with_older_run,      *)
(* get_current_version, migrate_up, migrate_down, migrate_goto) and the    *)
(* part of main() that drives it (lines 490-504).                          *)
(*                                                                         *)
(* Conventions                                                             *)
(*  - The module is Python 2 code (str.decode at line 329, None compared   *)
(*    with integers at lines 318, 367, 406): None orders below every int.  *)
(*    An optional integer is <<>> (None) or <<v>>.                         *)
(*  - module.fail_json raises SystemExit, which neither `except            *)
(*    mysql_driver.Error` nor `except Exception` catches: the run ends at  *)
(*    the call.  An exception nobody catches (IndexError) ends the run as  *)
(*    a crash.                                                             *)
(*  - A file name is a sequence of tokens, e.g.                            *)
(*    <<"1","_","a",".","up",".","sql">>; a name (regex group 2) is the    *)
(*    sub-sequence of tokens the group captures.                           *)
(*  - The database outside the ledger table is abstracted to one integer   *)
(*    per version, the net number of times the version's up script has     *)
(*    been applied: an up script adds one, a down script takes one away.   *)
(*    The connection is transactional (autocommit off, line 251):          *)
(*    rollback() restores the last committed state.                        *)
(*  - Runs with drop unset and a valid source directory are modelled.      *)
(***************************************************************************)
EXTENDS Integers, Sequences, FiniteSets, TLC

\* Versions used by the migration files and ledger rows of the model.
MaxVersion == 3
\* Dirty rows in an initial ledger.
MaxDirty == 1

VARIABLES
    dir,              \* os.listdir(source): sequence of entries [name, isfile]
    ledger,           \* rows of the migration table: [version, name, dirty]
    schema,           \* database content: version -> net applications of its up script
    pc,               \* "start" | "main" | "up" | "down" | "done" | "failed"
    migrations,       \* self.migrations
    current_version,  \* self.current_version
    updated_version,  \* self.updated_version
    changed,          \* self.changed
    invoked,          \* the call main() made: <<"up"|"down"|"goto"|"none", argument>>
    count,            \* the parameter `up` of migrate_up / `down` of migrate_down
    pos,              \* index of the next element of the for loop
    iteration,        \* local variable `iteration`
    result,           \* what exit_json / fail_json reported
    log,              \* events of the current run, in order
    again,            \* the runs that follow the current one: "no" | "once" | "always"
    ledger0,          \* the ledger when the current run started
    schema0,          \* the database content when the current run started
    prev              \* the previous run, when it ended in exit_json

world  == <<dir, ledger, schema>>
engine == <<migrations, current_version, updated_version, changed>>
loop   == <<invoked, count, pos, iteration>>
hist   == <<again, ledger0, schema0, prev>>
vars   == <<dir, ledger, schema, pc, migrations, current_version, updated_version,
            changed, invoked, count, pos, iteration, result, log, again,
            ledger0, schema0, prev>>

Versions == 1..MaxVersion

-----------------------------------------------------------------------------
(* Optional integers and Python 2 ordering of None *)

None == <<>>
Some(v) == <<v>>
IsNone(x) == x = <<>>

\* A skip test that lets the current version through.
OptGE_Strict(x, v) == ~IsNone(x) /\ x[1] > v

\* self.current_version >= v   (None >= v is False)
OptGE(x, v) == ~IsNone(x) /\ x[1] >= v
\* self.current_version < v    (None < v is True)
OptLT(x, v) == IsNone(x) \/ x[1] < v
\* self.current_version > v    (None > v is False)
OptGT(x, v) == ~IsNone(x) /\ x[1] > v

SetMax(S) == CHOOSE x \in S : \A y \in S : y <= x
SetMin(S) == CHOOSE x \in S : \A y \in S : x <= y

-----------------------------------------------------------------------------
(* File names and the regular expression of line 295 *)

Digits == <<"0", "1", "2", "3", "4", "5", "6", "7", "8", "9">>
IsDigit(t) == \E i \in 1..Len(Digits) : Digits[i] = t
DigitValue(t) == (CHOOSE i \in 1..Len(Digits) : Digits[i] = t) - 1

\* int(reg_out[0][0])
RECURSIVE ParseInt(_)
ParseInt(ds) ==
    IF ds = <<>> THEN 0
    ELSE 10 * ParseInt(SubSeq(ds, 1, Len(ds) - 1)) + DigitValue(ds[Len(ds)])

\* The longest prefix of digits: what the greedy group ([0-9]+) takes.
DigitPrefix(f) ==
    SetMax({k \in 0..Len(f) : \A i \in 1..k : IsDigit(f[i])})

\* re.findall('^([0-9]+)_(.*)\.(down|up)\.(.*)$', f): no match gives the empty
\* list; a match gives one tuple of the four groups.  Group 2 is greedy, so it
\* ends at the last ".down." or ".up." of the name.
re_findall(f) ==
    LET k == DigitPrefix(f)
        dots == {i \in (k + 2)..(Len(f) - 2) :
                    /\ f[i] = "."
                    /\ f[i + 1] \in {"down", "up"}
                    /\ f[i + 2] = "."}
    IN  IF k >= 1 /\ k < Len(f) /\ f[k + 1] = "_" /\ dots # {}
        THEN LET i == SetMax(dots)
             IN  << <<SubSeq(f, 1, k), SubSeq(f, k + 2, i - 1), f[i + 1],
                      SubSeq(f, i + 3, Len(f))>> >>
        ELSE <<>>

-----------------------------------------------------------------------------
(* load_metadata_migration_files *)

\* An iteration that keeps what the dictionary already has for the version.
ScanEntry_FirstWins(e, dict) ==
    IF ~e.isfile THEN dict
    ELSE LET reg_out == re_findall(e.name)
             version == ParseInt(reg_out[1][1])
             new == (reg_out[1][3] :> e.name) @@ ("name" :> reg_out[1][2])
         IN  IF version \in DOMAIN dict
             THEN [dict EXCEPT ![version] = dict[version] @@ new]
             ELSE (version :> new) @@ dict

\* One iteration of the for loop over os.listdir: the dictionary afterwards.
\* Precondition: the entry is not a regular file, or its name matches.
ScanEntry(e, dict) ==
    IF ~e.isfile THEN dict
    ELSE LET reg_out == re_findall(e.name)
             version == ParseInt(reg_out[1][1])
             name == reg_out[1][2]
             direction == reg_out[1][3]
             new == (direction :> e.name) @@ ("name" :> name)
         IN  IF version \in DOMAIN dict
             THEN [dict EXCEPT ![version] = new @@ dict[version]]
             ELSE (version :> new) @@ dict

\* reg_out[0] of an empty list raises IndexError.
RaisesIndexError(e) == e.isfile /\ re_findall(e.name) = <<>>

RECURSIVE ScanFrom(_, _, _)
ScanFrom(listing, i, dict) ==
    IF i > Len(listing) THEN [crash |-> FALSE, dict |-> dict]
    ELSE IF RaisesIndexError(listing[i]) THEN [crash |-> TRUE, dict |-> dict]
    ELSE ScanFrom(listing, i + 1, ScanEntry(listing[i], dict))

\* sorted(migrations.items(), key = lambda i: i[0])
RECURSIVE SortedItems(_)
SortedItems(dict) ==
    IF DOMAIN dict = {} THEN <<>>
    ELSE LET v == SetMin(DOMAIN dict)
             rest == [w \in DOMAIN dict \ {v} |-> dict[w]]
         IN  <<<<v, dict[v]>>>> \o SortedItems(rest)

\* The list the function returns, or a crash.
load_metadata_migration_files(listing) ==
    LET scan == ScanFrom(listing, 1, <<>>)
    IN  [crash |-> scan.crash,
         list |-> IF scan.crash THEN <<>> ELSE SortedItems(scan.dict)]

-----------------------------------------------------------------------------
(* The ledger table *)

Row(v, n, d) == [version |-> v, name |-> n, dirty |-> d]

\* "Select * from `%s` order by version;"
RECURSIVE SelectOrderByVersion(_)
SelectOrderByVersion(rows) ==
    IF rows = {} THEN <<>>
    ELSE LET r == CHOOSE x \in rows : \A y \in rows : x.version <= y.version
         IN  <<r>> \o SelectOrderByVersion(rows \ {r})

\* A query for the least version.
get_current_version_Min(rows) ==
    LET clean == {r.version : r \in {x \in rows : ~x.dirty}}
    IN  IF clean = {} THEN None ELSE Some(SetMin(clean))

\* "Select MAX(version) as current_version ... where dirty IS FALSE;"
get_current_version(rows) ==
    LET clean == {r.version : r \in {x \in rows : ~x.dirty}}
    IN  IF clean = {} THEN None ELSE Some(SetMax(clean))

\* "Insert INTO ... ( version, name ) VALUES ... ON DUPLICATE KEY UPDATE
\*  dirty=FALSE, name = ..."
UpsertApplied(rows, v, n) ==
    {r \in rows : r.version # v} \cup {Row(v, n, FALSE)}

\* A delete that matches no row.
DeleteRecord_None(rows, v, n) ==
    {r \in rows : ~(r.version = v /\ r.name = n /\ r.dirty)}

\* "DELETE FROM ... where version = %s and name = '%s'"
DeleteRecord(rows, v, n) ==
    {r \in rows : ~(r.version = v /\ r.name = n)}

\* validate_new_with_older_run: "pass", "conflict" (fail_json) or "crash"
\* (self.migrations[pos] past the end of the list raises IndexError).
\* A walk that compares the versions only.
RECURSIVE ValidateFrom_VersionOnly(_, _, _)
ValidateFrom_VersionOnly(list, fetched, p) ==
    IF p > Len(fetched) THEN "pass"
    ELSE IF p > Len(list) THEN "crash"
    ELSE IF list[p][1] # fetched[p].version THEN "conflict"
    ELSE ValidateFrom_VersionOnly(list, fetched, p + 1)

RECURSIVE ValidateFrom(_, _, _)
ValidateFrom(list, fetched, p) ==
    IF p > Len(fetched) THEN "pass"
    ELSE IF p > Len(list) THEN "crash"
    ELSE IF list[p][1] # fetched[p].version THEN "conflict"
    ELSE IF list[p][2]["name"] # fetched[p].name THEN "conflict"
    ELSE ValidateFrom(list, fetched, p + 1)

validate_new_with_older_run(list, rows) ==
    ValidateFrom(list, SelectOrderByVersion(rows), 1)

-----------------------------------------------------------------------------
(* Script execution and the transaction of one step *)

\* cursor.execute(f.read()) of an up / a down script that succeeds.
ExecScript(db, direction, v) ==
    [db EXCEPT ![v] = IF direction = "up" THEN @ + 1 ELSE @ - 1]

\* db_connection.rollback(): back to the last committed state.
Rollback(committed, uncommitted) == committed

\* db_connection.commit() that succeeds: the transaction becomes the state.
Commit(committed, uncommitted) == uncommitted

\* How a step's try block can end (lines 326-336, 375-386), and how the
\* auto-revert's try block can end (lines 339-344, 389-394).
StepOutcomes == {"ok", "script_error", "commit_error"}
RevertOutcomes == {"ok", "error"}

Event(e, w, v, ok) == [ev |-> e, what |-> w, version |-> v, ok |-> ok]

\* The statements a step's try block ran, by outcome.
StepEvents(direction, v, outcome) ==
    LET write == IF direction = "up" THEN "upsert" ELSE "delete"
    IN  CASE outcome = "ok" ->
                <<Event("exec", direction, v, TRUE), Event("write", write, v, TRUE),
                  Event("commit", "", v, TRUE)>>
          [] outcome = "script_error" ->
                <<Event("exec", direction, v, FALSE)>>
          [] outcome = "commit_error" ->
                <<Event("exec", direction, v, TRUE), Event("write", write, v, TRUE),
                  Event("commit", "", v, FALSE)>>

\* The statements the except block ran: rollback, then the revert script when
\* the migration has one.
RevertEvents(direction, v, present, revert) ==
    <<Event("rollback", "", v, TRUE)>> \o
    (IF ~present THEN <<>>
     ELSE IF revert = "ok"
     THEN <<Event("exec", direction, v, TRUE), Event("commit", "", v, TRUE)>>
     ELSE <<Event("exec", direction, v, FALSE), Event("rollback", "", v, TRUE)>>)

-----------------------------------------------------------------------------
(* What main reports *)

Running == [status |-> "running", error |-> "", keys |-> {}, changed |-> FALSE,
            current_version |-> None, updated_version |-> None]

\* module.exit_json(changed=db.changed, msg={current_version, updated_version})
ExitJson(ch, cur, upd) ==
    [status |-> "ok", error |-> "", keys |-> {"changed", "current_version", "updated_version"},
     changed |-> ch, current_version |-> cur, updated_version |-> upd]

\* module.fail_json(msg=...): the message only.
FailJson(kind) ==
    [status |-> "failed", error |-> kind, keys |-> {"msg"}, changed |-> FALSE,
     current_version |-> None, updated_version |-> None]

\* An exception nothing catches.
Crash(kind) ==
    [status |-> "crash", error |-> kind, keys |-> {}, changed |-> FALSE,
     current_version |-> None, updated_version |-> None]

NoPrev == [ok |-> FALSE, invoked |-> <<"none", 0>>, ledger0 |-> {},
           current_version |-> None]

-----------------------------------------------------------------------------
(* Initial states: a source directory and a persisted ledger *)

CanonicalName == <<"a">>
OtherName == <<"b">>
Names == {CanonicalName, OtherName}

FileName(v, n, direction) ==
    <<Digits[v + 1], "_">> \o n \o <<".", direction, ".", "sql">>

File(f) == [name |-> f, isfile |-> TRUE]
Subdirectory(f) == [name |-> f, isfile |-> FALSE]

\* Scripts missing from a directory whose versions otherwise have both.
MaxMissing == 1

Presences ==
    {P \in [Versions -> SUBSET {"up", "down"}] :
        Cardinality({v \in Versions : Cardinality(P[v]) = 1}) <= MaxMissing}

\* The files of versions v, v-1, ..., 1 in that order: a listing that is not
\* sorted by version.
RECURSIVE BaseListing(_, _)
BaseListing(P, v) ==
    IF v = 0 THEN <<>>
    ELSE (IF "down" \in P[v] THEN <<File(FileName(v, CanonicalName, "down"))>> ELSE <<>>)
         \o (IF "up" \in P[v] THEN <<File(FileName(v, CanonicalName, "up"))>> ELSE <<>>)
         \o BaseListing(P, v - 1)

Readme == File(<<"README", ".", "md">>)
Archive == Subdirectory(<<"archive">>)
Renamed == File(FileName(1, OtherName, "down"))

\* The directories of versions 1..k, k <= MaxVersion, with both scripts each.
FullListings ==
    {BaseListing([v \in Versions |-> IF v <= k THEN {"up", "down"} ELSE {}], MaxVersion) :
        k \in 0..MaxVersion}

Listings ==
    {BaseListing(P, MaxVersion) : P \in Presences}
        \cup {b \o <<x>> : b \in FullListings, x \in {Readme, Archive, Renamed}}
        \cup {<<Renamed>> \o b : b \in FullListings}

Ledgers ==
    {rows \in SUBSET {Row(v, n, d) : v \in Versions, n \in Names, d \in BOOLEAN} :
        /\ \A r, s \in rows : r.version = s.version => r = s
        /\ \A r \in rows : r.dirty => r.name = CanonicalName
        /\ Cardinality({r \in rows : r.dirty}) <= MaxDirty}

\* A clean row's version is applied once, a version without a row is not
\* applied, a dirty row's version is either.
Schemas(rows) ==
    {s \in [Versions -> {0, 1}] :
        \A v \in Versions :
            /\ (\E r \in rows : r.version = v /\ ~r.dirty) => s[v] = 1
            /\ (\A r \in rows : r.version # v) => s[v] = 0}

InitRest ==
    /\ pc = "start"
    /\ migrations = <<>>
    /\ current_version = None
    /\ updated_version = None
    /\ changed = FALSE
    /\ invoked = <<"none", 0>>
    /\ count = 0
    /\ pos = 1
    /\ iteration = 0
    /\ result = Running
    /\ log = <<>>
    /\ ledger0 = ledger
    /\ schema0 = schema
    /\ prev = NoPrev

\* Entries of a directory listing in any order: files of version 1 under two
\* names, a name with a direction inside it, a version of two digits and a
\* subdirectory.
MaxFiles == 4

Nested == File(<<"1", "_", "a", ".", "up", ".", "b", ".", "down", ".", "sql">>)
TwoDigits == File(<<"1", "0", "_", "a", ".", "up", ".", "sql">>)

DirEntries ==
    {File(FileName(1, CanonicalName, "up")), File(FileName(1, CanonicalName, "down")),
     Renamed, File(FileName(2, CanonicalName, "up")), Nested, TwoDigits, Archive}

\* os.listdir gives every entry once.
AnyListings ==
    {l \in UNION {[1..n -> DirEntries] : n \in 0..MaxFiles} :
        \A i, j \in 1..Len(l) : l[i] = l[j] => i = j}

\* The load of any such directory, on an empty database.
InitLoad ==
    /\ dir \in AnyListings
    /\ ledger = {}
    /\ schema = [v \in Versions |-> 0]
    /\ again = "no"
    /\ InitRest

\* One run of the module on any directory and any ledger.
Init ==
    /\ dir \in Listings
    /\ ledger \in Ledgers
    /\ schema \in Schemas(ledger)
    /\ again = "no"
    /\ InitRest

\* A run and the run after it, on a directory of versions 1..k with both
\* scripts each.
InitRuns ==
    /\ dir \in FullListings
    /\ ledger \in Ledgers
    /\ schema \in Schemas(ledger)
    /\ again = "once"
    /\ InitRest

\* The directory of versions 1 and 2 with both scripts each.
TwoVersions ==
    BaseListing([v \in Versions |-> IF v <= 2 THEN {"up", "down"} ELSE {}], MaxVersion)

\* The directories of versions 1 and 2 where version 2 has one script only.
OneSided ==
    {BaseListing([v \in Versions |-> IF v = 1 THEN {"up", "down"}
                                     ELSE IF v = 2 THEN {direction} ELSE {}],
                 MaxVersion) : direction \in {"up", "down"}}

\* Directories of any set of versions with both scripts each, the directory
\* of versions 1 and 2 with a second name for version 1, listed last or
\* first, and those where version 2 lacks a script.
HistoryListings ==
    {BaseListing(P, MaxVersion) : P \in [Versions -> {{}, {"up", "down"}}]}
        \cup {TwoVersions \o <<Renamed>>, <<Renamed>> \o TwoVersions}
        \cup OneSided

\* Any number of runs, one after the other, on one directory and a database
\* that starts empty.
InitHistory ==
    /\ dir \in HistoryListings
    /\ ledger = {}
    /\ schema = [v \in Versions |-> 0]
    /\ again = "always"
    /\ InitRest

-----------------------------------------------------------------------------
(* main, lines 490-492: db = database(...); db.init() *)

\* What can go wrong with the three statements init sends to the server.
InitFaults == {"none", "create", "select", "max"}

\* db.init() ended by fail_json or by an exception.
Stopped(list, res, events) ==
    [pc |-> IF res.status = "crash" THEN "crashed" ELSE "failed",
     migrations |-> list, current_version |-> None,
     result |-> res, log |-> events]

\* An init that goes on after a conflict.
init_IgnoringVerdict(listing, rows, fault) ==
    LET loaded == load_metadata_migration_files(listing)
        verdict == validate_new_with_older_run(loaded.list, rows)
    IN  [pc |-> "main", migrations |-> loaded.list,
         current_version |-> get_current_version(rows),
         result |-> Running,
         log |-> <<Event("validate", verdict, 0, verdict = "pass")>>]

\* How db.init() ends on a listing and a ledger when the server fails at
\* `fault`: the fields of the object and what was reported, if anything.
init(listing, rows, fault) ==
    LET loaded == load_metadata_migration_files(listing)
        verdict == validate_new_with_older_run(loaded.list, rows)
        checked == <<Event("validate", verdict, 0, verdict = "pass")>>
    IN  IF loaded.crash THEN Stopped(<<>>, Crash("IndexError"), <<>>)
        ELSE IF fault = "create"
        THEN Stopped(loaded.list, FailJson("DatabaseError"), <<>>)
        ELSE IF fault = "select"
        THEN Stopped(loaded.list, FailJson("DatabaseError"),
                     <<Event("validate", "error", 0, FALSE)>>)
        ELSE IF verdict = "crash"
        THEN Stopped(loaded.list, Crash("IndexError"), checked)
        ELSE IF verdict = "conflict"
        THEN Stopped(loaded.list, FailJson("VersionConflict"), checked)
        ELSE IF fault = "max"
        THEN Stopped(loaded.list, FailJson("DatabaseError"), checked)
        ELSE [pc |-> "main", migrations |-> loaded.list,
              current_version |-> get_current_version(rows),
              result |-> Running, log |-> checked]

\* Script executions the database content is away from a content that agrees
\* with the ledger: each committed auto-revert of a rolled-back step adds one.
MaxDrift == 1

RECURSIVE DriftUpTo(_, _, _)
DriftUpTo(db, rows, v) ==
    IF v = 0 THEN 0
    ELSE LET expected == IF \E r \in rows : r.version = v /\ ~r.dirty THEN {1}
                         ELSE IF \E r \in rows : r.version = v THEN {0, 1}
                         ELSE {0}
             away == SetMin({IF db[v] >= e THEN db[v] - e ELSE e - db[v] : e \in expected})
         IN  away + DriftUpTo(db, rows, v - 1)

Drift(db, rows) == DriftUpTo(db, rows, MaxVersion)

main_init ==
    /\ \/ pc = "start"
       \/ /\ pc \in {"done", "failed", "crashed"}
          /\ \/ again = "once"
             \/ again = "always" /\ Drift(schema, ledger) <= MaxDrift
    /\ again' = IF again = "once" /\ pc # "start" THEN "no" ELSE again
    /\ prev' = IF pc = "done" /\ again = "once"
               THEN [ok |-> TRUE, invoked |-> invoked, ledger0 |-> ledger0,
                     current_version |-> current_version]
               ELSE NoPrev
    /\ ledger0' = ledger
    /\ schema0' = schema
    /\ \E s \in {init(dir, ledger, fault) : fault \in InitFaults} :
          /\ pc' = s.pc
          /\ migrations' = s.migrations
          /\ current_version' = s.current_version
          /\ updated_version' = s.current_version
          /\ result' = s.result
          /\ log' = s.log
    /\ changed' = FALSE
    /\ invoked' = <<"none", 0>>
    /\ count' = 0
    /\ pos' = 1
    /\ iteration' = 0
    /\ UNCHANGED <<dir, ledger, schema>>

-----------------------------------------------------------------------------
(* main, lines 494-499: the call of migrate_up, migrate_down or migrate_goto *)

\* Values of the module parameters up, down and goto.
Args == (0 - 1)..MaxVersion
OptArgs == {None} \cup {Some(n) : n \in Args}

\* An iteration in list order.
Reverse_Forward(seq) == seq

\* reversed(self.migrations)
Reverse(seq) == [i \in 1..Len(seq) |-> seq[Len(seq) + 1 - i]]

\* Line 407: versions above the current one, up to the target.
GotoUp(list, cur, goto) ==
    SelectSeq([i \in 1..Len(list) |-> list[i][1]],
              LAMBDA v : OptLT(cur, v) /\ v <= goto)

\* Line 412: versions below the current one, down to the target.
GotoDown(list, cur, goto) ==
    SelectSeq([i \in 1..Len(list) |-> Reverse(list)[i][1]],
              LAMBDA v : OptGT(cur, v) /\ v >= goto)

\* A test that is satisfied by any candidate up to the target.
Contains_AnyBelow(seq, x) == \E i \in 1..Len(seq) : seq[i] <= x

Contains(seq, x) == \E i \in 1..Len(seq) : seq[i] = x

\* Entering migrate_up(n) / migrate_down(n).
Enter(which, call, n) ==
    /\ pc' = which
    /\ invoked' = call
    /\ count' = n
    /\ pos' = 1
    /\ iteration' = 0
    /\ UNCHANGED <<changed, result>>

\* fail_json / exit_json from main or migrate_goto, before any loop.
Leave(call, res, ch) ==
    /\ pc' = IF res.status = "ok" THEN "done" ELSE "failed"
    /\ invoked' = call
    /\ changed' = ch
    /\ result' = res
    /\ UNCHANGED <<count, pos, iteration>>

\* migrate_goto, lines 404-417.
migrate_goto(goto) ==
    LET call == <<"goto", goto>>
        up == GotoUp(migrations, current_version, goto)
        down == GotoDown(migrations, current_version, goto)
    IN  IF OptLT(current_version, goto)
        THEN IF ~Contains(up, goto)
             THEN Leave(call, FailJson("TargetNotFound"), changed)
             ELSE Enter("up", call, Len(up))
        ELSE IF OptGT(current_version, goto)
        THEN IF ~Contains(down, goto)
             THEN Leave(call, FailJson("TargetNotFound"), changed)
             ELSE Enter("down", call, Len(down))
        ELSE Leave(call, ExitJson(FALSE, current_version, updated_version), FALSE)

main_call ==
    /\ pc = "main"
    /\ \E up \in OptArgs, down \in OptArgs, goto \in OptArgs :
          IF up # None THEN Enter("up", <<"up", up[1]>>, up[1])
          ELSE IF down # None THEN Enter("down", <<"down", down[1]>>, down[1])
          ELSE IF goto # None THEN migrate_goto(goto[1])
          ELSE Leave(<<"none", 0>>,
                     ExitJson(changed, current_version, updated_version), changed)
    /\ UNCHANGED <<world, migrations, current_version, updated_version, log, hist>>

-----------------------------------------------------------------------------
(* migrate_up, lines 314-351: one iteration of the for loop *)

\* A test that finds every script present.
HasScript_Always(d, direction) == TRUE

\* Lines 322 and 371: 'up' in migrate[1] / 'down' in migrate[1]
HasScript(d, direction) == direction \in DOMAIN d

\* A count test that lets one more step through.
CountReached_OffByOne(it, n) == it > n /\ n # 0

\* Lines 320 and 369: (iteration >= up) and (up is not 0)
CountReached(it, n) == it >= n /\ n # 0

\* A fail_json that reports and returns: the loop goes on with the next
\* migration.
Abort_GoesOn(kind, events) ==
    /\ pc' = pc
    /\ result' = result
    /\ log' = log \o events
    /\ pos' = pos + 1
    /\ UNCHANGED <<iteration, changed>>

\* The iteration ends the run with fail_json.
Abort(kind, events) ==
    /\ pc' = "failed"
    /\ result' = FailJson(kind)
    /\ log' = log \o events
    /\ UNCHANGED <<pos, iteration, changed>>

\* Lines 337-351 and 387-401: the step's transaction is rolled back, the
\* opposite script (when the migration has one) is run and committed; when
\* that fails too, fail_json ends the run at line 348 / 398, before the
\* statement that marks the version dirty is executed.
Recover(direction, opposite, v, d, outcome) ==
    \E revert \in RevertOutcomes :
        LET present == opposite \in DOMAIN d
            undone == Rollback(schema, ExecScript(schema, direction, v))
            reverted == ExecScript(undone, opposite, v)
        IN  /\ schema' = IF present /\ revert = "ok"
                         THEN Commit(undone, reverted)
                         ELSE Rollback(undone, reverted)
            /\ ledger' = ledger
            /\ Abort(IF present /\ revert = "error" THEN "DirtyState" ELSE "DatabaseError",
                     StepEvents(direction, v, outcome)
                        \o RevertEvents(opposite, v, present, revert))

migrate_up ==
    /\ pc = "up"
    /\ pos <= Len(migrations)
    /\ LET migrate == migrations[pos]
           v == migrate[1]
           d == migrate[2]
       IN  /\ updated_version' = Some(v)
           /\ IF OptGE(current_version, v)
              THEN /\ pos' = pos + 1
                   /\ UNCHANGED <<ledger, schema, pc, iteration, changed, result, log>>
              ELSE IF CountReached(iteration, count)
              THEN /\ pos' = Len(migrations) + 1
                   /\ UNCHANGED <<ledger, schema, pc, iteration, changed, result, log>>
              ELSE IF ~HasScript(d, "up")
              THEN /\ Abort("MissingScript", <<>>)
                   /\ UNCHANGED <<ledger, schema>>
              ELSE \E outcome \in StepOutcomes :
                      IF outcome = "ok"
                      THEN /\ schema' = Commit(schema, ExecScript(schema, "up", v))
                           /\ ledger' = Commit(ledger, UpsertApplied(ledger, v, d["name"]))
                           /\ iteration' = iteration + 1
                           /\ changed' = TRUE
                           /\ pos' = pos + 1
                           /\ log' = log \o StepEvents("up", v, outcome)
                           /\ UNCHANGED <<pc, result>>
                      ELSE Recover("up", "down", v, d, outcome)
    /\ UNCHANGED <<dir, migrations, current_version, invoked, count, hist>>

-----------------------------------------------------------------------------
(* migrate_down, lines 364-401: one iteration of the for loop *)

migrate_down ==
    /\ pc = "down"
    /\ pos <= Len(migrations)
    /\ LET migrate == Reverse(migrations)[pos]
           v == migrate[1]
           d == migrate[2]
       IN  IF OptLT(current_version, v)
           THEN /\ pos' = pos + 1
                /\ UNCHANGED <<ledger, schema, pc, iteration, changed, result, log,
                               updated_version>>
           ELSE IF CountReached(iteration, count)
           THEN /\ pos' = Len(migrations) + 1
                /\ UNCHANGED <<ledger, schema, pc, iteration, changed, result, log,
                               updated_version>>
           ELSE IF ~HasScript(d, "down")
           THEN /\ Abort("MissingScript", <<>>)
                /\ UNCHANGED <<ledger, schema, updated_version>>
           ELSE \E outcome \in StepOutcomes :
                   IF outcome = "ok"
                   THEN /\ schema' = Commit(schema, ExecScript(schema, "down", v))
                        /\ ledger' = Commit(ledger, DeleteRecord(ledger, v, d["name"]))
                        /\ iteration' = iteration + 1
                        /\ updated_version' = Some(v)
                        /\ changed' = TRUE
                        /\ pos' = pos + 1
                        /\ log' = log \o StepEvents("down", v, outcome)
                        /\ UNCHANGED <<pc, result>>
                   ELSE /\ Recover("down", "up", v, d, outcome)
                        /\ UNCHANGED updated_version
    /\ UNCHANGED <<dir, migrations, current_version, invoked, count, hist>>

-----------------------------------------------------------------------------
(* main, lines 501-504: the loop has ended, exit_json reports *)

main_exit ==
    /\ pc \in {"up", "down"}
    /\ pos > Len(migrations)
    /\ pc' = "done"
    /\ result' = ExitJson(changed, current_version, updated_version)
    /\ UNCHANGED <<world, engine, loop, log, hist>>

Next ==
    \/ main_init
    \/ main_call
    \/ migrate_up
    \/ migrate_down
    \/ main_exit

Spec == Init /\ [][Next]_vars

SpecRuns == InitRuns /\ [][Next]_vars

SpecHistory == InitHistory /\ [][Next]_vars

\* db.init() alone, on any listing.
SpecLoad == InitLoad /\ [][main_init]_vars

-----------------------------------------------------------------------------
(* Vocabulary of the properties *)

MigrationVersions == {migrations[i][1] : i \in 1..Len(migrations)}

\* The name the loaded list gives a version.
NameOf(v) == (CHOOSE i \in 1..Len(migrations) : migrations[i][1] = v)
NameIn(v) == migrations[NameOf(v)][2]["name"]

\* The ledger's current version: the greatest version with a non-dirty row.
CurrentOf(rows) ==
    IF \E r \in rows : ~r.dirty
    THEN Some(CHOOSE v \in {r.version : r \in rows} :
                /\ \E r \in rows : r.version = v /\ ~r.dirty
                /\ \A r \in rows : ~r.dirty => r.version <= v)
    ELSE None

\* The elements of a set of integers in ascending order.
RECURSIVE Ascending(_)
Ascending(S) ==
    IF S = {} THEN <<>>
    ELSE LET m == CHOOSE x \in S : \A y \in S : x <= y
         IN  <<m>> \o Ascending(S \ {m})

Least(a, b) == IF a <= b THEN a ELSE b

\* The scripts the run executed, in order: <<direction, version, succeeded>>.
Executions ==
    LET ex == SelectSeq(log, LAMBDA e : e.ev = "exec")
    IN  [i \in 1..Len(ex) |-> <<ex[i].what, ex[i].version, ex[i].ok>>]

\* The run ended by exit_json after main called op.
Succeeded(op) == pc = "done" /\ invoked[1] = op

-----------------------------------------------------------------------------
(* C1 *)

\* Versions of the loaded list above the ledger's current version at Init.
PendingAtInit ==
    Ascending({v \in MigrationVersions : OptLT(CurrentOf(ledger0), v)})

\* C1: a successful run Up(n), n >= 1, executes the up scripts of exactly the
\* min(n, p) lowest pending versions, in ascending order, and nothing else;
\* their rows are then in the ledger, non-dirty, beside the rows the ledger
\* had; the ledger's current version is the last of them and changed is true
\* when there is one.
C1_UpAppliesLowestPending ==
    (Succeeded("up") /\ invoked[2] >= 1) =>
        LET k == Least(invoked[2], Len(PendingAtInit))
            applied == SubSeq(PendingAtInit, 1, k)
            set == {applied[i] : i \in 1..k}
        IN  /\ Executions = [i \in 1..k |-> <<"up", applied[i], TRUE>>]
            /\ ledger = {r \in ledger0 : r.version \notin set}
                            \cup {Row(v, NameIn(v), FALSE) : v \in set}
            /\ k >= 1 => /\ CurrentOf(ledger) = Some(applied[k])
                         /\ result.changed
            /\ k = 0 => ledger = ledger0

\* Up(2) on an empty ledger with versions 1, 2, 3 applied 1 and 2.
C1_Witness ==
    /\ Succeeded("up")
    /\ invoked[2] = 2
    /\ ledger0 = {}
    /\ MigrationVersions = {1, 2, 3}
    /\ {r.version : r \in ledger} = {1, 2}
    /\ CurrentOf(ledger) = Some(2)
    /\ result.changed

-----------------------------------------------------------------------------
(* C2 *)

\* The run's last step failed and so did its auto-revert: the last script
\* executed failed, right after the rollback of the step.
DoubleFailure ==
    /\ pc = "failed"
    /\ Len(log) >= 3
    /\ log[Len(log)].ev = "rollback"
    /\ log[Len(log) - 1].ev = "exec" /\ ~log[Len(log) - 1].ok
    /\ log[Len(log) - 2].ev = "rollback"

FailedVersion == log[Len(log)].version

\* C2: after a step and its auto-revert have both failed, the version's
\* ledger row is persisted with dirty = true and the run has failed with the
\* dirty-state error.
C2_DoubleFailureMarksDirty ==
    DoubleFailure =>
        /\ \E r \in ledger : r.version = FailedVersion /\ r.dirty
        /\ result.status = "failed"
        /\ result.error = "DirtyState"

-----------------------------------------------------------------------------
(* C3 *)

\* C3: after a successful Up, Down or Goto, updated_version as reported is the
\* ledger's current version at the end of the run and current_version as
\* reported is the ledger's current version at Init.
C3_ReportedVersions ==
    (pc = "done" /\ invoked[1] \in {"up", "down", "goto"}) =>
        /\ result.updated_version = CurrentOf(ledger)
        /\ result.current_version = CurrentOf(ledger0)

-----------------------------------------------------------------------------
(* C4 *)

\* The run that has just ended by exit_json was main calling op(arg), and the
\* run before it ended by exit_json after main called op0(arg0).
After(op0, arg0, op, arg) ==
    /\ pc = "done"
    /\ invoked = <<op, arg>>
    /\ prev.ok
    /\ prev.invoked = <<op0, arg0>>

\* C4: from an empty ledger, after a successful Up(0) every version of the
\* directory has a non-dirty row; after a successful Down(0) that follows it
\* the ledger has no rows and its current version is none again.
C4_UpAllThenDownAll ==
    /\ (Succeeded("up") /\ invoked[2] = 0 /\ ledger0 = {}) =>
            /\ {r.version : r \in ledger} = MigrationVersions
            /\ \A r \in ledger : ~r.dirty
    /\ (After("up", 0, "down", 0) /\ prev.ledger0 = {}) =>
            /\ ledger = {}
            /\ CurrentOf(ledger) = None

\* Up(0) applied three versions from an empty ledger and Down(0) removed them.
C4_Witness ==
    /\ After("up", 0, "down", 0)
    /\ prev.ledger0 = {}
    /\ ledger0 = {Row(v, CanonicalName, FALSE) : v \in 1..3}
    /\ Executions = <<<<"down", 3, TRUE>>, <<"down", 2, TRUE>>, <<"down", 1, TRUE>>>>
    /\ ledger = {}

-----------------------------------------------------------------------------
(* C5 *)

\* Goto(c) has just succeeded, right after a successful Goto(v) that started
\* from a ledger whose current version was c.
GotoAndBack ==
    /\ pc = "done"
    /\ invoked[1] = "goto"
    /\ prev.ok
    /\ prev.invoked[1] = "goto"
    /\ prev.current_version = Some(invoked[2])

-----------------------------------------------------------------------------
(* C6 *)

\* No script was executed and no ledger row written in the run so far.
NothingDone ==
    /\ \A i \in 1..Len(log) : log[i].ev \notin {"exec", "write", "commit"}
    /\ ledger = ledger0
    /\ schema = schema0

\* C6: Goto(target) with a target that is neither the current version nor
\* the version of a migration among the candidates (the versions above the
\* current one up to the target, or below it down to the target) fails with
\* the target-not-found error, no script executed, every ledger row as it was.
C6_GotoUnknownTarget ==
    LET target == invoked[2]
        cur == CurrentOf(ledger0)
        candidates == IF OptLT(cur, target)
                      THEN {v \in MigrationVersions : OptLT(cur, v) /\ v <= target}
                      ELSE {v \in MigrationVersions : OptGT(cur, v) /\ v >= target}
    IN  (invoked[1] = "goto" /\ cur # Some(target) /\ target \notin candidates) =>
            /\ pc = "failed"
            /\ result.status = "failed"
            /\ result.error = "TargetNotFound"
            /\ NothingDone

\* Goto(2) failed on a directory with versions 1 and 3 and a ledger at 1.
C6_Witness ==
    /\ invoked = <<"goto", 2>>
    /\ MigrationVersions = {1, 3}
    /\ ledger0 = {Row(1, CanonicalName, FALSE)}
    /\ pc = "failed"
    /\ result.error = "TargetNotFound"
    /\ ledger = ledger0

-----------------------------------------------------------------------------
(* C7 *)

\* The reconciliation walk of the run has read the ledger rows.
RowsRead ==
    /\ Len(log) >= 1
    /\ log[1].ev = "validate"
    /\ log[1].what # "error"

\* Row i of the ledger, in version order, faces migrations[i] and differs
\* from it in version or in name.
Mismatch(i) ==
    LET rows == SelectOrderByVersion(ledger0)
    IN  /\ i <= Len(rows)
        /\ i <= Len(migrations)
        /\ \/ rows[i].version # migrations[i][1]
           \/ rows[i].name # migrations[i][2]["name"]

\* C7: when some ledger row differs from the migration at its position, in
\* version or in name, the run fails at Init with the version-conflict error,
\* having executed no script and written no ledger row.
C7_ReconciliationConflict ==
    (RowsRead /\ \E i \in 1..Len(migrations) : Mismatch(i)) =>
        /\ pc = "failed"
        /\ result.status = "failed"
        /\ result.error = "VersionConflict"
        /\ NothingDone

\* The ledger agrees on the versions and differs in the name of the second.
C7_Witness ==
    /\ RowsRead
    /\ MigrationVersions = {1, 2, 3}
    /\ ledger0 = {Row(1, CanonicalName, FALSE), Row(2, OtherName, FALSE)}
    /\ Mismatch(2)
    /\ ~Mismatch(1)
    /\ result.error = "VersionConflict"

-----------------------------------------------------------------------------
(* C8 *)

Validations == {i \in 1..Len(log) : log[i].ev = "validate"}

RunEnded == pc \in {"done", "failed", "crashed"}

\* C8 as stated: every run performs the reconciliation check exactly once.
C8_ExactlyOnceInEveryRun ==
    RunEnded => Cardinality(Validations) = 1

\* C8 amended: a run performs the reconciliation check at most once, and
\* exactly once when it gets as far as the check (the directory loaded, the
\* table created); whatever script it executes, whatever it writes, commits
\* or rolls back, and whatever step of Up, Down or Goto it takes comes after
\* that one check, which passed.
C8_ReconciliationOnceAndFirst ==
    /\ Cardinality(Validations) <= 1
    /\ (RunEnded /\ Validations = {}) =>
          /\ log = <<>>
          /\ result.status # "ok"
          /\ \/ result.error = "IndexError"
             \/ result.error = "DatabaseError"
    /\ \A i \in 1..Len(log) :
          log[i].ev # "validate" =>
              /\ i > 1
              /\ log[1].ev = "validate"
              /\ log[1].ok
    /\ (pc \in {"main", "up", "down", "done"} \/ invoked[1] # "none"
            \/ ledger # ledger0 \/ schema # schema0) =>
          /\ Validations = {1}
          /\ log[1].ok

\* A run that passed the check and then executed two scripts.
C8_Witness ==
    /\ Validations = {1}
    /\ log[1].ok
    /\ Len(Executions) = 2
    /\ ledger # ledger0

-----------------------------------------------------------------------------
(* C9 *)

\* The steps of the run that committed: positions of their script execution.
CommittedSteps ==
    {i \in 1..(Len(log) - 2) :
        /\ log[i].ev = "exec" /\ log[i].ok
        /\ log[i + 1].ev = "write"
        /\ log[i + 2].ev = "commit" /\ log[i + 2].ok}

\* The database content the committed steps of the run leave: each took the
\* version from not applied to applied, or back.
AfterCommittedSteps ==
    [v \in Versions |->
        schema0[v]
        + Cardinality({i \in CommittedSteps : log[i].version = v /\ log[i].what = "up"})
        - Cardinality({i \in CommittedSteps : log[i].version = v /\ log[i].what = "down"})]

\* C9: at the end of a run without double failure, a version's up-script
\* effects are in the database exactly when the ledger has a non-dirty row
\* for it, and the database is what the committed steps made it: a step that
\* failed and whose auto-revert succeeded left the state it started from.
C9_StepsAreAtomic ==
    (pc \in {"done", "failed"} /\ ~DoubleFailure) =>
        /\ \A v \in Versions :
              (\A r \in ledger0 \cup ledger : r.version = v => ~r.dirty) =>
                  (schema[v] >= 1 <=> \E r \in ledger : r.version = v)
        /\ schema = AfterCommittedSteps

-----------------------------------------------------------------------------
(* C10 *)

\* A regular file whose name the pattern does not match.
NotAMigrationFile(e) == e.isfile /\ re_findall(e.name) = <<>>

\* C10: regular files whose names do not match the pattern are ignored: the
\* load succeeds and gives the list it gives for the directory without them.
C10_NonMatchingFilesIgnored ==
    (pc # "start" /\ \E i \in 1..Len(dir) : NotAMigrationFile(dir[i])) =>
        /\ result.status # "crash"
        /\ migrations =
              load_metadata_migration_files(
                  SelectSeq(dir, LAMBDA e : ~NotAMigrationFile(e))).list

-----------------------------------------------------------------------------
(* C11 *)

DirtyAtInit == \E r \in ledger0 : r.dirty

\* C11: a run that started on a ledger with a dirty row executes no migration
\* script and leaves every ledger row as it was.
C11_DirtyLedgerRefusesRun ==
    DirtyAtInit =>
        /\ Executions = <<>>
        /\ ledger = ledger0

-----------------------------------------------------------------------------
(* C12 *)

\* The elements of a set of integers in descending order.
RECURSIVE Descending(_)
Descending(S) ==
    IF S = {} THEN <<>>
    ELSE LET m == CHOOSE x \in S : \A y \in S : y <= x
         IN  <<m>> \o Descending(S \ {m})

\* The versions migrate_up / migrate_down does not skip, in iteration order:
\* those above the ledger's current version at Init, ascending, and those up
\* to it, descending.
Considered(op) ==
    IF op = "up" THEN PendingAtInit
    ELSE Descending({v \in MigrationVersions : OptGE(CurrentOf(ledger0), v)})

\* Positions in Considered(op) of the versions without a script for op.
Missing(op) ==
    {j \in 1..Len(Considered(op)) :
        op \notin DOMAIN migrations[NameOf(Considered(op)[j])][2]}

\* Position j is within the limit of a count n >= 0 (0: no limit).
WithinLimit(j, n) == n = 0 \/ j <= n

\* Nothing the run has done so far failed.
AllStepsOk == \A i \in 1..Len(log) : log[i].ok

\* The ledger after the steps of op on the versions of the set have committed.
LedgerAfter(op, set) ==
    IF op = "up"
    THEN {r \in ledger0 : r.version \notin set}
            \cup {Row(v, NameIn(v), FALSE) : v \in set}
    ELSE {r \in ledger0 : r.version \notin set}

\* C12: a run Up(n) / Down(n) whose steps did not fail and that has, within
\* the limit of n, a version without the script of its direction ends with the
\* missing-script error; it executed the scripts of the versions before that
\* one and of no other, and the ledger is what those steps committed: the
\* version without script has the row it had, or none.
C12_MissingScriptStopsRun ==
    \A op \in {"up", "down"} :
        (/\ RunEnded
         /\ invoked[1] = op
         /\ invoked[2] >= 0
         /\ AllStepsOk
         /\ Missing(op) # {}
         /\ WithinLimit(SetMin(Missing(op)), invoked[2])) =>
            LET j == SetMin(Missing(op))
                before == SubSeq(Considered(op), 1, j - 1)
                set == {before[i] : i \in 1..(j - 1)}
            IN  /\ pc = "failed"
                /\ result.status = "failed"
                /\ result.error = "MissingScript"
                /\ Executions = [i \in 1..(j - 1) |-> <<op, before[i], TRUE>>]
                /\ ledger = LedgerAfter(op, set)
                /\ schema = AfterCommittedSteps

\* Up(0) applied version 1 and stopped at version 2, which has no up script.
C12_Witness ==
    /\ invoked = <<"up", 0>>
    /\ ledger0 = {}
    /\ MigrationVersions = {1, 2, 3}
    /\ Missing("up") = {2}
    /\ result.error = "MissingScript"
    /\ Executions = <<<<"up", 1, TRUE>>>>
    /\ ledger = {Row(1, CanonicalName, FALSE)}

\* Down(0) removed version 3 and stopped at version 2, which has no down script.
C12_WitnessDown ==
    /\ invoked = <<"down", 0>>
    /\ Missing("down") = {2}
    /\ result.error = "MissingScript"
    /\ Executions = <<<<"down", 3, TRUE>>>>

-----------------------------------------------------------------------------
(* C13 *)

\* C13: a successful run Down(n), n >= 1, executes the down scripts of
\* exactly the min(n, k) highest of the k migration versions up to the
\* ledger's current version at Init, in descending order, and nothing else,
\* and deletes exactly their rows; Down(0) does so for all k.  When no row was
\* dirty those k versions are the versions of the ledger's rows.
C13_DownRemovesHighestApplied ==
    (Succeeded("down") /\ invoked[2] >= 0) =>
        LET applied == Considered("down")
            k == IF invoked[2] = 0 THEN Len(applied)
                 ELSE Least(invoked[2], Len(applied))
            removed == SubSeq(applied, 1, k)
            set == {removed[i] : i \in 1..k}
        IN  /\ Executions = [i \in 1..k |-> <<"down", removed[i], TRUE>>]
            /\ ledger = {r \in ledger0 : r.version \notin set}
            /\ schema = [v \in Versions |-> IF v \in set THEN schema0[v] - 1 ELSE schema0[v]]
            /\ result.changed = (k >= 1)
            /\ ~DirtyAtInit =>
                  {applied[i] : i \in 1..Len(applied)} = {r.version : r \in ledger0}

\* Down(2) from versions 1, 2, 3 removed 3 and 2.
C13_Witness ==
    /\ Succeeded("down")
    /\ invoked[2] = 2
    /\ ledger0 = {Row(v, CanonicalName, FALSE) : v \in 1..3}
    /\ Executions = <<<<"down", 3, TRUE>>, <<"down", 2, TRUE>>>>
    /\ ledger = {Row(1, CanonicalName, FALSE)}
    /\ result.changed

-----------------------------------------------------------------------------
(* C14 *)

\* The version of the last step of the run that committed.
LastCommitted == log[SetMax(CommittedSteps)].version

\* C14: when a run of Up or Down ends with an error after some of its steps
\* committed, what it reports to the caller carries updated_version, the
\* version of the last step that committed.
C14_ErrorCarriesProgress ==
    (pc = "failed" /\ invoked[1] \in {"up", "down"} /\ CommittedSteps # {}) =>
        /\ "updated_version" \in result.keys
        /\ result.updated_version = Some(LastCommitted)

-----------------------------------------------------------------------------
(* C15 *)

\* Positions in the listing of the regular files of a version, and of those
\* of a version and a direction.
FilesOf(v) ==
    {i \in 1..Len(dir) :
        /\ dir[i].isfile
        /\ re_findall(dir[i].name) # <<>>
        /\ ParseInt(re_findall(dir[i].name)[1][1]) = v}

FilesOfDirection(v, direction) ==
    {i \in FilesOf(v) : re_findall(dir[i].name)[1][3] = direction}

VersionsListed ==
    {ParseInt(re_findall(dir[i].name)[1][1]) :
        i \in {j \in 1..Len(dir) : dir[j].isfile /\ re_findall(dir[j].name) # <<>>}}

\* Every regular file of the directory matches the pattern.
AllFilesMatch == \A i \in 1..Len(dir) : ~NotAMigrationFile(dir[i])

\* C15: the list loaded from a directory whose regular files all match is
\* sorted strictly ascending by version, has one record for each version that
\* has a file and no other; the record's name is that of the last file listed
\* for the version, and its up / down file is the last file listed for the
\* version and that direction, absent when there is none.
C15_LoadedListSortedLastWins ==
    (pc # "start" /\ AllFilesMatch) =>
        /\ \A i \in 1..(Len(migrations) - 1) : migrations[i][1] < migrations[i + 1][1]
        /\ MigrationVersions = VersionsListed
        /\ \A i \in 1..Len(migrations) :
              LET v == migrations[i][1]
                  record == migrations[i][2]
              IN  /\ record["name"] = re_findall(dir[SetMax(FilesOf(v))].name)[1][2]
                  /\ DOMAIN record \subseteq {"name", "up", "down"}
                  /\ \A direction \in {"up", "down"} :
                        IF FilesOfDirection(v, direction) = {}
                        THEN direction \notin DOMAIN record
                        ELSE record[direction] =
                                dir[SetMax(FilesOfDirection(v, direction))].name

\* Listed in this order: 10_a.up.sql, 2_a.up.sql, 1_a.up.sql, 1_b.down.sql.
\* The list has versions 1, 2, 10 in that order; the record of version 1 has
\* the name b of the file listed last, that file as down file and 1_a.up.sql
\* as up file.
C15_Witness ==
    /\ pc # "start"
    /\ dir = <<TwoDigits, File(FileName(2, CanonicalName, "up")),
               File(FileName(1, CanonicalName, "up")), Renamed>>
    /\ [i \in 1..Len(migrations) |-> migrations[i][1]] = <<1, 2, 10>>
    /\ migrations[1][2]["name"] = OtherName
    /\ migrations[1][2]["down"] = Renamed.name
    /\ migrations[1][2]["up"] = FileName(1, CanonicalName, "up")

-----------------------------------------------------------------------------
(* C16 *)

\* <<direction, v, TRUE>> for the versions of a sequence, in its order.
StepsOf(direction, versions) ==
    [i \in 1..Len(versions) |-> <<direction, versions[i], TRUE>>]

\* Versions with a non-dirty row.
Applied(rows) == {r.version : r \in {x \in rows : ~x.dirty}}

\* C16: a successful Goto(target) from a ledger with current version c leaves
\* the ledger's current version at target; for target > c it executed the up
\* scripts of exactly the migration versions in (c, target], ascending; for
\* target < c the down scripts of exactly the applied versions in
\* (target, c], descending; for target = c no script, every ledger row as it
\* was and changed = false.
C16_GotoReachesTarget ==
    Succeeded("goto") =>
        LET c == CurrentOf(ledger0)
            target == invoked[2]
        IN  /\ CurrentOf(ledger) = Some(target)
            /\ OptLT(c, target) =>
                  Executions =
                      StepsOf("up", Ascending({v \in MigrationVersions :
                                                  OptLT(c, v) /\ v <= target}))
            /\ OptGT(c, target) =>
                  Executions =
                      StepsOf("down", Descending({v \in Applied(ledger0) :
                                                     v > target /\ OptGE(c, v)}))
            /\ c = Some(target) =>
                  /\ Executions = <<>>
                  /\ ledger = ledger0
                  /\ ~result.changed

-----------------------------------------------------------------------------
(* C17 *)

\* Positions in the log of the script executions and commits that failed.
Failures == {i \in 1..Len(log) : log[i].ev \in {"exec", "commit"} /\ ~log[i].ok}

\* The direction of the steps of the run.
RunDirection == IF Executions = <<>> THEN "up" ELSE Executions[1][1]

\* The run ended because a step failed or had no script.
StepError ==
    /\ pc = "failed"
    /\ \/ Failures # {}
       \/ result.error = "MissingScript"

\* C17: a failed script execution or commit ends the run; after the first
\* failure the run touches no other version: it writes no ledger row and
\* executes at most one script, the opposite one of the failed version (the
\* auto-revert).  A run ended by a missing script has executed nothing but
\* the steps that committed.  Unless both the step and its auto-revert
\* failed, the ledger at the end is the ledger the committed steps of the run
\* made: the failed version's row is as it was before the step.
C17_ErrorsAreFatal ==
    /\ Failures # {} =>
          LET f == SetMin(Failures)
              v == log[f].version
          IN  /\ pc = "failed"
              /\ result.status = "failed"
              /\ \A i \in (f + 1)..Len(log) :
                    /\ log[i].version = v
                    /\ log[i].ev # "write"
                    /\ log[i].ev = "exec" => log[i].what # RunDirection
              /\ Cardinality({i \in (f + 1)..Len(log) : log[i].ev = "exec"}) <= 1
    /\ (pc = "failed" /\ result.error = "MissingScript") =>
          /\ Failures = {}
          /\ Len(Executions) = Cardinality(CommittedSteps)
    /\ (StepError /\ ~DoubleFailure) =>
          ledger = LedgerAfter(RunDirection, {log[i].version : i \in CommittedSteps})

\* Up(0) on versions 1, 2, 3: version 1 committed, the up script of version 2
\* failed and its down script reverted; version 3 was not touched.
C17_Witness ==
    /\ invoked = <<"up", 0>>
    /\ ledger0 = {}
    /\ MigrationVersions = {1, 2, 3}
    /\ pc = "failed"
    /\ Executions = <<<<"up", 1, TRUE>>, <<"up", 2, FALSE>>, <<"down", 2, TRUE>>>>
    /\ ledger = {Row(1, CanonicalName, FALSE)}

-----------------------------------------------------------------------------
(* C18 *)

\* The rows, in version order, are the first migrations of the list, version
\* and name, and none is dirty.
PrefixOf(rows, list) ==
    LET fetched == SelectOrderByVersion(rows)
    IN  /\ Len(fetched) <= Len(list)
        /\ \A i \in 1..Len(fetched) :
              /\ fetched[i].version = list[i][1]
              /\ fetched[i].name = list[i][2]["name"]
              /\ ~fetched[i].dirty

\* C18: on one directory and from an empty ledger, whatever the runs so far
\* did, the ledger rows in version order are a prefix of the loaded migration
\* list, none dirty, and no run's reconciliation ended in the conflict or in
\* an exception.
C18_LedgerIsPrefixOfMigrations ==
    /\ pc # "start" => PrefixOf(ledger, migrations)
    /\ \A i \in Validations : log[i].what \in {"pass", "error"}
    /\ pc # "crashed"

\* A third run passes reconciliation: the first applied version 1, in the
\* second the down script of version 1 failed and its up script ran as revert.
C18_Witness ==
    /\ MigrationVersions = {1, 2, 3}
    /\ ledger0 = {Row(1, CanonicalName, FALSE)}
    /\ schema0[1] = 2
    /\ pc = "up"
    /\ log[1].what = "pass"
    /\ Len(Executions) = 1
    /\ {r.version : r \in ledger} = {1, 2}

-----------------------------------------------------------------------------
(* C19 *)

\* C19: after a successful Up, Down or Goto with any argument, changed as
\* reported is true exactly when the set of ledger rows differs from the set
\* at Init, and when it is false updated_version as reported equals
\* current_version as reported.
C19_ChangedIffLedgerDiffers ==
    (pc = "done" /\ invoked[1] \in {"up", "down", "goto"}) =>
        /\ result.changed <=> ledger # ledger0
        /\ ~result.changed => result.updated_version = result.current_version

-----------------------------------------------------------------------------
(* C20 *)

\* C20: a reconciliation walk that has read the ledger rows ends in pass or
\* in the version-conflict error and in nothing else, whatever the ledger and
\* the migration list; when it passes, every ledger row has been compared
\* with the migration at its position and agrees with it.
C20_ReconciliationPassOrConflict ==
    RowsRead =>
        /\ log[1].what \in {"pass", "conflict"}
        /\ result.status # "crash"
        /\ log[1].what = "conflict" => result.error = "VersionConflict"
        /\ log[1].what = "pass" =>
              /\ Cardinality(ledger0) <= Len(migrations)
              /\ \A i \in 1..Cardinality(ledger0) : ~Mismatch(i)

====
